---- MODULE Spec2Model ----
(***************************************************************************)
(* State machine of contracts/NotaryService.sol: the document store, the   *)
(* version chains, the signing and approval trackers and the notary        *)
(* registry.  Every external function of the contract is one action; a     *)
(* call is one atomic transaction that either applies all its writes or    *)
(* reverts with the message of the first failing require and leaves no     *)
(* trace.  eventLog collects the events emitted by the successful          *)
(* transactions, as a bag: their order is not kept.                        *)
(*                                                                         *)
(* block.timestamp is written into records and events but read by no       *)
(* guard; the timestamp fields are left out of the records.                *)
(***************************************************************************)
EXTENDS Integers, Sequences, FiniteSets, Bags, TLC

\* ------------------------------------------------------------------ bounds
\* longest required-signer list passed to notarizeDocument
MaxSigners == 2
\* number of emitted events after which the exploration stops
MaxEvents == 4

\* ---------------------------------------------------------------- universe
\* externally owned accounts that send transactions
Address == {"owner", "alice"}
\* the account that deploys the contract
Deployer == "owner"
\* address(0), the default value of an address slot
ZeroAddress == "0x0"
\* document hashes (keys of the mappings)
Hash == {1, 2, 3}
\* the hashes callers submit under Spec
MainHash == {1, 2}
\* bytes32(0), the default value of a bytes32 slot
ZeroHash == 0
\* metadata strings passed to notarizeDocument
Metadata == {"contract"}
\* change descriptions passed to createDocumentVersion
ChangeDescription == {"v2"}
\* reasons passed to rejectDocument
Reason == {"bad terms"}

\* enum DocumentStatus
DocumentStatus == {"PENDING", "SIGNED", "APPROVED", "REJECTED", "ARCHIVED"}

\* the sequences over S of length at most n
RECURSIVE SeqUpTo(_, _)
SeqUpTo(S, n) ==
    IF n = 0 THEN {<<>>}
    ELSE LET shorter == SeqUpTo(S, n - 1)
         IN  shorter \cup {Append(s, x) : s \in shorter, x \in S}

\* the address[] arguments of notarizeDocument
SignerLists == SeqUpTo(Address, MaxSigners)

VARIABLES
    documents,            \* mapping(bytes32 => NotarizedDocument)
    documentVersions,     \* mapping(bytes32 => DocumentVersion[])
    latestVersionHash,    \* mapping(bytes32 => bytes32)
    authorizedNotaries,   \* mapping(address => bool)
    owner,                \* address
    totalDocuments,       \* uint256
    eventLog,             \* bag of the events emitted so far
    wallet,               \* app.js: the account the gateway signs with
    served                \* app.js: the 200 responses given, by route and hash

vars == <<documents, documentVersions, latestVersionHash, authorizedNotaries,
          owner, totalDocuments, eventLog, wallet, served>>

\* the state of the HTTP gateway
gateway == <<wallet, served>>

\* the mutating routes of the gateway
Route == {"notarize", "versions", "sign", "approve", "reject"}

\* wallet before initializeBlockchain, or without PRIVATE_KEY: contract is unset
NoWallet == "undefined"

\* the contract's storage
storage == <<documents, documentVersions, latestVersionHash, authorizedNotaries,
             owner, totalDocuments>>

\* a storage slot of documents never written: every field has its zero value
EmptyDocument ==
    [documentHash    |-> ZeroHash,
     notary          |-> ZeroAddress,
     metadata        |-> "",
     exists          |-> FALSE,
     requiredSigners |-> <<>>,
     approvers       |-> <<>>,
     hasSigned       |-> [a \in Address |-> FALSE],
     hasApproved     |-> [a \in Address |-> FALSE],
     signerCount     |-> 0,
     approverCount   |-> 0,
     status          |-> "PENDING"]

\* ------------------------------------------------------------------ helpers
\* an emitted event
Event(name, h, actor, extra, version) ==
    [event |-> name, documentHash |-> h, actor |-> actor, extra |-> extra,
     version |-> version]

\* ---------------------------------------------------------------- modifiers
\* the modifier letting every authorized notary through
onlyOwner_OrNotary(sender) == sender = owner \/ authorizedNotaries[sender]

onlyOwner(sender) == sender = owner

\* the modifier reading the notary set only
onlyAuthorizedNotary_SetOnly(sender) == authorizedNotaries[sender]

onlyAuthorizedNotary(sender) == authorizedNotaries[sender] \/ sender = owner

documentExists(h) == documents[h].exists

\* linear scan of the stored required-signer array
_isRequiredSigner(h, signer) ==
    \E i \in 1..Len(documents[h].requiredSigners) :
        documents[h].requiredSigners[i] = signer

\* the modifier letting the owner through
onlyRequiredSigner_OrOwner(h, sender) == _isRequiredSigner(h, sender) \/ sender = owner

onlyRequiredSigner(h, sender) == _isRequiredSigner(h, sender)

\* -------------------------------------------------------------------- Init
Init ==
    /\ documents = [h \in Hash |-> EmptyDocument]
    /\ documentVersions = [h \in Hash |-> <<>>]
    /\ latestVersionHash = [h \in Hash |-> ZeroHash]
    /\ owner = Deployer
    /\ authorizedNotaries = [a \in Address |-> a = Deployer]
    /\ totalDocuments = 0
    /\ eventLog = EmptyBag
    /\ wallet = NoWallet
    /\ served = [k \in Route \X Hash |-> 0]

\* emit adding the event to the log twice
Emit_Twice(event) == eventLog' = eventLog (+) SetToBag({event}) (+) SetToBag({event})

\* emit: the event is added to the log
Emit(event) == eventLog' = eventLog (+) SetToBag({event})

\* the events emitted so far
EventCount == BagCardinality(eventLog)

\* a reverted transaction that leaves a record of the failure in the log
Revert_Logged ==
    /\ eventLog' = eventLog (+) SetToBag({Event("Reverted", ZeroHash, ZeroAddress, "", 0)})
    /\ UNCHANGED storage

\* a reverted transaction: no write is kept and no event is emitted
Revert == UNCHANGED vars

\* ------------------------------------------------------- notarizeDocument
\* notarizeDocument without its require on documents[h].exists
notarizeDocumentRequire_NoExistsCheck(sender, h) ==
    IF ~onlyAuthorizedNotary(sender) THEN "Not authorized notary"
    ELSE "ok"

\* notarizeDocument without the onlyAuthorizedNotary modifier
notarizeDocumentRequire_NoModifier(sender, h) ==
    IF documents[h].exists THEN "Document already notarized"
    ELSE "ok"

\* the requires of notarizeDocument, in order: "ok" or the revert message
notarizeDocumentRequire(sender, h) ==
    IF ~onlyAuthorizedNotary(sender) THEN "Not authorized notary"
    ELSE IF documents[h].exists THEN "Document already notarized"
    ELSE "ok"

\* the document record with the owner stored as its notary
NotarizedDocument_NotaryIsOwner(doc, sender, h, metadata, signers) ==
    [doc EXCEPT !.documentHash = h, !.notary = owner,
                !.metadata = metadata, !.exists = TRUE,
                !.requiredSigners = signers, !.status = "PENDING"]

\* the document record written by notarizeDocument: the fields it does not
\* assign keep the value of the storage slot
NotarizedDocument(doc, sender, h, metadata, signers) ==
    [doc EXCEPT !.documentHash = h, !.notary = sender,
                !.metadata = metadata, !.exists = TRUE,
                !.requiredSigners = signers, !.status = "PENDING"]

\* the writes of a successful notarizeDocument
notarizeDocumentApply(sender, h, metadata, signers) ==
    LET initialVersion ==
            [documentHash |-> h, version |-> 1, previousVersionHash |-> ZeroHash,
             creator |-> sender, changeDescription |-> "Initial version",
             isLatest |-> TRUE]
    IN  /\ documents' = [documents EXCEPT ![h] =
               NotarizedDocument(@, sender, h, metadata, signers)]
        /\ documentVersions' = [documentVersions EXCEPT ![h] = Append(@, initialVersion)]
        /\ latestVersionHash' = [latestVersionHash EXCEPT ![h] = h]
        /\ totalDocuments' = totalDocuments + 1
        /\ Emit(Event("DocumentNotarized", h, sender, metadata, 0))
        /\ UNCHANGED <<authorizedNotaries, owner>>

notarizeDocument(sender, h, lists) ==
    LET msg == notarizeDocumentRequire(sender, h)
    IN  IF msg # "ok" THEN Revert
        ELSE /\ \E metadata \in Metadata, signers \in lists :
                    notarizeDocumentApply(sender, h, metadata, signers)

\* -------------------------------------------------- createDocumentVersion
\* createDocumentVersion with a require on the status of the original
createDocumentVersionRequire_PendingOnly(originalHash, newVersionHash) ==
    IF ~documentExists(originalHash) THEN "Document does not exist"
    ELSE IF documents[newVersionHash].exists THEN "New version hash already exists"
    ELSE IF ~(Len(documentVersions[originalHash]) > 0) THEN "No versions found"
    ELSE IF ~(documents[originalHash].status = "PENDING")
         THEN "Document not in pending status"
    ELSE "ok"

\* createDocumentVersion without its require on documents[_newVersionHash]
createDocumentVersionRequire_NoNewHashCheck(originalHash, newVersionHash) ==
    IF ~documentExists(originalHash) THEN "Document does not exist"
    ELSE IF ~(Len(documentVersions[originalHash]) > 0) THEN "No versions found"
    ELSE "ok"

\* createDocumentVersion without its require on versions.length
createDocumentVersionRequire_NoVersionsCheck(originalHash, newVersionHash) ==
    IF ~documentExists(originalHash) THEN "Document does not exist"
    ELSE IF documents[newVersionHash].exists THEN "New version hash already exists"
    ELSE "ok"

\* the requires of createDocumentVersion, in order
createDocumentVersionRequire(originalHash, newVersionHash) ==
    IF ~documentExists(originalHash) THEN "Document does not exist"
    ELSE IF documents[newVersionHash].exists THEN "New version hash already exists"
    ELSE IF ~(Len(documentVersions[originalHash]) > 0) THEN "No versions found"
    ELSE "ok"

\* the loop replaced by clearing the flag of the first entry only
ClearFirstLatest_Root(versions) ==
    IF Len(versions) = 0 THEN versions
    ELSE [versions EXCEPT ![1] = [@ EXCEPT !.isLatest = FALSE]]

\* the loop that marks the previous latest as not latest: the first entry
\* whose isLatest is set is cleared, then the loop breaks
ClearFirstLatest(versions) ==
    LET marked == {i \in 1..Len(versions) : versions[i].isLatest}
    IN  IF marked = {} THEN versions
        ELSE LET first == CHOOSE i \in marked : \A j \in marked : i <= j
             IN  [versions EXCEPT ![first] = [@ EXCEPT !.isLatest = FALSE]]

\* the version record with the root hash as its previous version
NewVersion_PreviousIsRoot(sender, originalHash, newVersionHash, changeDescription) ==
    [documentHash |-> newVersionHash,
     version |-> Len(documentVersions[originalHash]) + 1,
     previousVersionHash |-> originalHash,
     creator |-> sender,
     changeDescription |-> changeDescription,
     isLatest |-> TRUE]

\* the version record pushed by createDocumentVersion
NewVersion(sender, originalHash, newVersionHash, changeDescription) ==
    [documentHash |-> newVersionHash,
     version |-> Len(documentVersions[originalHash]) + 1,
     previousVersionHash |-> latestVersionHash[originalHash],
     creator |-> sender,
     changeDescription |-> changeDescription,
     isLatest |-> TRUE]

\* the copy that also takes the status and the signatures of the original
CopiedDocument_WithSignatures(originalHash, newVersionHash) ==
    [documents[newVersionHash] EXCEPT
        !.documentHash = newVersionHash,
        !.notary = documents[originalHash].notary,
        !.metadata = documents[originalHash].metadata,
        !.exists = TRUE,
        !.requiredSigners = documents[originalHash].requiredSigners,
        !.hasSigned = documents[originalHash].hasSigned,
        !.signerCount = documents[originalHash].signerCount,
        !.status = documents[originalHash].status]

\* the copy without the metadata of the original
CopiedDocument_NoMetadata(originalHash, newVersionHash) ==
    [documents[newVersionHash] EXCEPT
        !.documentHash = newVersionHash,
        !.notary = documents[originalHash].notary,
        !.exists = TRUE,
        !.requiredSigners = documents[originalHash].requiredSigners,
        !.status = "PENDING"]

\* the document record written at newVersionHash: copied from the original
CopiedDocument(originalHash, newVersionHash) ==
    [documents[newVersionHash] EXCEPT
        !.documentHash = newVersionHash,
        !.notary = documents[originalHash].notary,
        !.metadata = documents[originalHash].metadata,
        !.exists = TRUE,
        !.requiredSigners = documents[originalHash].requiredSigners,
        !.status = "PENDING"]

\* createDocumentVersion counting the new version in totalDocuments
createDocumentVersionApply_Counted(sender, originalHash, newVersionHash, changeDescription) ==
    LET newVersion == NewVersion(sender, originalHash, newVersionHash, changeDescription)
    IN  /\ documentVersions' = [documentVersions EXCEPT ![originalHash] =
               Append(ClearFirstLatest(@), newVersion)]
        /\ latestVersionHash' = [latestVersionHash EXCEPT ![originalHash] = newVersionHash]
        /\ documents' = [documents EXCEPT ![newVersionHash] =
               CopiedDocument(originalHash, newVersionHash)]
        /\ totalDocuments' = totalDocuments + 1
        /\ Emit(Event("DocumentVersionCreated", originalHash, sender,
                       changeDescription, newVersion.version))
        /\ UNCHANGED <<authorizedNotaries, owner>>

\* the writes of a successful createDocumentVersion
createDocumentVersionApply(sender, originalHash, newVersionHash, changeDescription) ==
    LET newVersion == NewVersion(sender, originalHash, newVersionHash, changeDescription)
    IN  /\ documentVersions' = [documentVersions EXCEPT ![originalHash] =
               Append(ClearFirstLatest(@), newVersion)]
        /\ latestVersionHash' = [latestVersionHash EXCEPT ![originalHash] = newVersionHash]
        /\ documents' = [documents EXCEPT ![newVersionHash] =
               CopiedDocument(originalHash, newVersionHash)]
        /\ Emit(Event("DocumentVersionCreated", originalHash, sender,
                       changeDescription, newVersion.version))
        /\ UNCHANGED <<authorizedNotaries, owner, totalDocuments>>

createDocumentVersion(sender, originalHash, newVersionHash) ==
    LET msg == createDocumentVersionRequire(originalHash, newVersionHash)
    IN  IF msg # "ok"
        THEN Revert
        ELSE /\ \E changeDescription \in ChangeDescription :
                    createDocumentVersionApply(sender, originalHash, newVersionHash,
                                               changeDescription)

\* ------------------------------------------------------------ signDocument
\* signDocument without its require on hasSigned
signDocumentRequire_NoSignedCheck(sender, h) ==
    IF ~documentExists(h) THEN "Document does not exist"
    ELSE IF ~onlyRequiredSigner(h, sender) THEN "Not a required signer"
    ELSE IF ~(documents[h].status = "PENDING") THEN "Document not in pending status"
    ELSE "ok"

\* signDocument without the onlyRequiredSigner modifier
signDocumentRequire_NoRequiredSigner(sender, h) ==
    IF ~documentExists(h) THEN "Document does not exist"
    ELSE IF documents[h].hasSigned[sender] THEN "Already signed"
    ELSE IF ~(documents[h].status = "PENDING") THEN "Document not in pending status"
    ELSE "ok"

\* signDocument without its require on the status
signDocumentRequire_NoStatusCheck(sender, h) ==
    IF ~documentExists(h) THEN "Document does not exist"
    ELSE IF ~onlyRequiredSigner(h, sender) THEN "Not a required signer"
    ELSE IF documents[h].hasSigned[sender] THEN "Already signed"
    ELSE "ok"

\* signDocument with its two requires in the other order
signDocumentRequire_StatusFirst(sender, h) ==
    IF ~documentExists(h) THEN "Document does not exist"
    ELSE IF ~onlyRequiredSigner(h, sender) THEN "Not a required signer"
    ELSE IF ~(documents[h].status = "PENDING") THEN "Document not in pending status"
    ELSE IF documents[h].hasSigned[sender] THEN "Already signed"
    ELSE "ok"

\* the modifiers and requires of signDocument, in order
signDocumentRequire(sender, h) ==
    IF ~documentExists(h) THEN "Document does not exist"
    ELSE IF ~onlyRequiredSigner(h, sender) THEN "Not a required signer"
    ELSE IF documents[h].hasSigned[sender] THEN "Already signed"
    ELSE IF ~(documents[h].status = "PENDING") THEN "Document not in pending status"
    ELSE "ok"

\* the completion test made before the count is incremented
SignedDocument_CompareBeforeIncrement(doc, sender) ==
    LET marked == [doc EXCEPT !.hasSigned[sender] = TRUE,
                              !.signerCount = @ + 1]
    IN  IF doc.signerCount = Len(doc.requiredSigners)
        THEN [marked EXCEPT !.status = "SIGNED"]
        ELSE marked

\* the last signature completing the document at once when it has approvals
SignedDocument_ApprovedIfApproved(doc, sender) ==
    LET marked == [doc EXCEPT !.hasSigned[sender] = TRUE,
                              !.signerCount = @ + 1]
    IN  IF marked.signerCount = Len(marked.requiredSigners)
        THEN [marked EXCEPT !.status = IF marked.approverCount > 0
                                       THEN "APPROVED" ELSE "SIGNED"]
        ELSE marked

\* the document record after msg.sender's signature
SignedDocument(doc, sender) ==
    LET marked == [doc EXCEPT !.hasSigned[sender] = TRUE,
                              !.signerCount = @ + 1]
    IN  IF marked.signerCount = Len(marked.requiredSigners)
        THEN [marked EXCEPT !.status = "SIGNED"]
        ELSE marked

signDocument(sender, h) ==
    LET msg == signDocumentRequire(sender, h)
    IN  IF msg # "ok" THEN Revert
        ELSE /\ documents' = [documents EXCEPT ![h] = SignedDocument(@, sender)]
             /\ Emit(Event("DocumentSigned", h, sender, "", 0))
             /\ UNCHANGED <<documentVersions, latestVersionHash, authorizedNotaries,
                            owner, totalDocuments>>

\* --------------------------------------------------------- approveDocument
\* approveDocument without its require on hasApproved
approveDocumentRequire_NoApprovedCheck(sender, h) ==
    IF ~documentExists(h) THEN "Document does not exist"
    ELSE IF ~(documents[h].status = "SIGNED" \/ documents[h].status = "PENDING")
         THEN "Invalid document status"
    ELSE "ok"

\* approveDocument without its require on the status
approveDocumentRequire_NoStatusCheck(sender, h) ==
    IF ~documentExists(h) THEN "Document does not exist"
    ELSE IF documents[h].hasApproved[sender] THEN "Already approved"
    ELSE "ok"

\* approveDocument with a require on the status that lets APPROVED through
approveDocumentRequire_ApprovedToo(sender, h) ==
    IF ~documentExists(h) THEN "Document does not exist"
    ELSE IF documents[h].hasApproved[sender] THEN "Already approved"
    ELSE IF ~(documents[h].status = "SIGNED" \/ documents[h].status = "PENDING"
              \/ documents[h].status = "APPROVED")
         THEN "Invalid document status"
    ELSE "ok"

\* the modifier and requires of approveDocument, in order
approveDocumentRequire(sender, h) ==
    IF ~documentExists(h) THEN "Document does not exist"
    ELSE IF documents[h].hasApproved[sender] THEN "Already approved"
    ELSE IF ~(documents[h].status = "SIGNED" \/ documents[h].status = "PENDING")
         THEN "Invalid document status"
    ELSE "ok"

\* every approval completes the document, whatever its status
ApprovedDocument_AlwaysApproved(doc, sender) ==
    [doc EXCEPT !.hasApproved[sender] = TRUE,
                !.approvers = Append(@, sender),
                !.approverCount = @ + 1,
                !.status = "APPROVED"]

\* the document record after msg.sender's approval
ApprovedDocument(doc, sender) ==
    LET marked == [doc EXCEPT !.hasApproved[sender] = TRUE,
                              !.approvers = Append(@, sender),
                              !.approverCount = @ + 1]
    IN  IF marked.status = "SIGNED"
        THEN [marked EXCEPT !.status = "APPROVED"]
        ELSE marked

approveDocument(sender, h) ==
    LET msg == approveDocumentRequire(sender, h)
    IN  IF msg # "ok" THEN Revert
        ELSE /\ documents' = [documents EXCEPT ![h] = ApprovedDocument(@, sender)]
             /\ Emit(Event("DocumentApproved", h, sender, "", 0))
             /\ UNCHANGED <<documentVersions, latestVersionHash, authorizedNotaries,
                            owner, totalDocuments>>

\* ---------------------------------------------------------- rejectDocument
\* rejectDocument without its require on the status
rejectDocumentRequire_NoStatusCheck(sender, h) ==
    IF ~documentExists(h) THEN "Document does not exist"
    ELSE IF ~onlyRequiredSigner(h, sender) THEN "Not a required signer"
    ELSE "ok"

\* the modifiers and the require of rejectDocument, in order
rejectDocumentRequire(sender, h) ==
    IF ~documentExists(h) THEN "Document does not exist"
    ELSE IF ~onlyRequiredSigner(h, sender) THEN "Not a required signer"
    ELSE IF ~(documents[h].status = "PENDING") THEN "Can only reject pending documents"
    ELSE "ok"

\* a rejection that deletes the document record
RejectedDocument_Deletes(doc) == EmptyDocument

\* a rejection that also discards the signatures collected so far
RejectedDocument_ResetsSignatures(doc) ==
    [doc EXCEPT !.status = "REJECTED",
                !.signerCount = 0,
                !.hasSigned = [a \in Address |-> FALSE]]

\* the document record after a rejection
RejectedDocument(doc) == [doc EXCEPT !.status = "REJECTED"]

rejectDocument(sender, h) ==
    LET msg == rejectDocumentRequire(sender, h)
    IN  IF msg # "ok" THEN Revert
        ELSE /\ \E reason \in Reason :
                /\ documents' = [documents EXCEPT ![h] = RejectedDocument(@)]
                /\ Emit(Event("DocumentRejected", h, sender, reason, 0))
             /\ UNCHANGED <<documentVersions, latestVersionHash, authorizedNotaries,
                            owner, totalDocuments>>

\* ------------------------------------------------- addNotary, removeNotary
addNotaryRequire(sender) ==
    IF ~onlyOwner(sender) THEN "Only owner can perform this action" ELSE "ok"

addNotary(sender, notary) ==
    LET msg == addNotaryRequire(sender)
    IN  IF msg # "ok" THEN Revert
        ELSE /\ authorizedNotaries' = [authorizedNotaries EXCEPT ![notary] = TRUE]
             /\ UNCHANGED eventLog
             /\ UNCHANGED <<documents, documentVersions, latestVersionHash, owner,
                            totalDocuments>>

removeNotaryRequire(sender) ==
    IF ~onlyOwner(sender) THEN "Only owner can perform this action" ELSE "ok"

removeNotary(sender, notary) ==
    LET msg == removeNotaryRequire(sender)
    IN  IF msg # "ok" THEN Revert
        ELSE /\ authorizedNotaries' = [authorizedNotaries EXCEPT ![notary] = FALSE]
             /\ UNCHANGED eventLog
             /\ UNCHANGED <<documents, documentVersions, latestVersionHash, owner,
                            totalDocuments>>

\* ------------------------------------------------------------------- views
verifyDocument(h) ==
    [exists |-> documents[h].exists, notary |-> documents[h].notary,
     status |-> documents[h].status, signerCount |-> documents[h].signerCount,
     approverCount |-> documents[h].approverCount]

getDocumentVersions(originalHash) == documentVersions[originalHash]

getLatestVersion(originalHash) == latestVersionHash[originalHash]

\* the outcome of a view behind the documentExists modifier: the value
\* returned, or the message of the revert
Returned(value) == [reverted |-> FALSE, value |-> value]

Reverted(message) == [reverted |-> TRUE, message |-> message]

getRequiredSigners(h) ==
    IF ~documentExists(h) THEN Reverted("Document does not exist")
    ELSE Returned(documents[h].requiredSigners)

hasSigned(h, signer) ==
    IF ~documentExists(h) THEN Reverted("Document does not exist")
    ELSE Returned(documents[h].hasSigned[signer])

\* getDocumentMetadata without the documentExists modifier
getDocumentMetadata_NoModifier(h) == Returned(documents[h].metadata)

getDocumentMetadata(h) ==
    IF ~documentExists(h) THEN Reverted("Document does not exist")
    ELSE Returned(documents[h].metadata)

\* ---------------------------------------------------------- gateway (app.js)
\* initializeBlockchain: the wallet is made from PRIVATE_KEY once, at start-up;
\* without a key the wallet and the contract handle stay unset
initializeBlockchain(key) ==
    /\ wallet = NoWallet
    /\ wallet' = key
    /\ UNCHANGED <<storage, eventLog, served>>

\* a gateway that would sign each transaction as the end user of the request
GatewaySender_EndUser(user) == user

\* msg.sender of a transaction of the gateway: the contract handle is bound to
\* the wallet, and no request names its end user
GatewaySender(user) == wallet

\* res.json of a route: 200 when tx.wait() returns, 500 when the call reverted
Respond(route, h, message) ==
    served' = IF message = "ok" THEN [served EXCEPT ![<<route, h>>] = @ + 1] ELSE served

\* POST /api/documents/notarize
PostNotarize(user, h, lists) ==
    IF wallet = NoWallet THEN UNCHANGED vars
    ELSE /\ notarizeDocument(GatewaySender(user), h, lists)
         /\ Respond("notarize", h, notarizeDocumentRequire(GatewaySender(user), h))
         /\ UNCHANGED wallet

\* POST /api/documents/:originalHash/versions
PostVersion(user, originalHash, newVersionHash) ==
    IF wallet = NoWallet THEN UNCHANGED vars
    ELSE /\ createDocumentVersion(GatewaySender(user), originalHash, newVersionHash)
         /\ Respond("versions", originalHash,
                    createDocumentVersionRequire(originalHash, newVersionHash))
         /\ UNCHANGED wallet

\* POST /api/documents/:hash/sign
PostSign(user, h) ==
    IF wallet = NoWallet THEN UNCHANGED vars
    ELSE /\ signDocument(GatewaySender(user), h)
         /\ Respond("sign", h, signDocumentRequire(GatewaySender(user), h))
         /\ UNCHANGED wallet

\* POST /api/documents/:hash/approve
PostApprove(user, h) ==
    IF wallet = NoWallet THEN UNCHANGED vars
    ELSE /\ approveDocument(GatewaySender(user), h)
         /\ Respond("approve", h, approveDocumentRequire(GatewaySender(user), h))
         /\ UNCHANGED wallet

\* POST /api/documents/:hash/reject
PostReject(user, h) ==
    IF wallet = NoWallet THEN UNCHANGED vars
    ELSE /\ rejectDocument(GatewaySender(user), h)
         /\ Respond("reject", h, rejectDocumentRequire(GatewaySender(user), h))
         /\ UNCHANGED wallet

\* -------------------------------------------------------------------- Next
\* Hashes are opaque keys that the contract only compares for equality, so
\* callers take unused hashes of H in increasing order: the hashes submitted
\* are those of the existing documents and the next unused one.
Submitted(H) ==
    LET unused == {h \in H : ~documents[h].exists}
    IN  {h \in H : documents[h].exists}
        \cup {h \in unused : \A g \in unused : h <= g}

\* the exploration goes on until MaxEvents events are logged
Exploring == EventCount < MaxEvents

NextOver(H, lists) ==
    \/ Exploring /\ UNCHANGED gateway /\ \E s \in Address, h \in Submitted(H) : notarizeDocument(s, h, lists)
    \/ Exploring /\ UNCHANGED gateway /\ \E s \in Address, h \in Submitted(H), n \in Submitted(H) :
           createDocumentVersion(s, h, n)
    \/ Exploring /\ UNCHANGED gateway /\ \E s \in Address, h \in Submitted(H) : signDocument(s, h)
    \/ Exploring /\ UNCHANGED gateway /\ \E s \in Address, h \in Submitted(H) : approveDocument(s, h)
    \/ Exploring /\ UNCHANGED gateway /\ \E s \in Address, h \in Submitted(H) : rejectDocument(s, h)
    \/ Exploring /\ UNCHANGED gateway /\ \E s \in Address, n \in Address : addNotary(s, n)
    \/ Exploring /\ UNCHANGED gateway /\ \E s \in Address, n \in Address : removeNotary(s, n)

Next == NextOver(MainHash, SignerLists)

Spec == Init /\ [][Next]_vars

\* The version chains: all three hashes are submitted, so that a lineage grows
\* to three entries, with documents that need no signer or one signer.
VersionSignerLists == {<<>>, <<"alice">>}

NextVersions == NextOver(Hash, VersionSignerLists)

SpecVersions == Init /\ [][NextVersions]_vars

\* The signing runs: documents with no signer, one signer, two signers and one
\* signer listed twice; a signature is never held back by the event budget,
\* and every identity's signDocument on every hash is weakly fair, so a signer
\* who can sign does sign in the end.
LiveSignerLists == {<<>>, <<"alice">>, <<"owner", "alice">>, <<"alice", "alice">>}

NextLive ==
    \/ Exploring /\ UNCHANGED gateway /\ \E s \in Address, h \in Submitted(MainHash) :
           notarizeDocument(s, h, LiveSignerLists)
    \/ Exploring /\ UNCHANGED gateway /\ \E s \in Address, h \in Submitted(MainHash), n \in Submitted(MainHash) :
           createDocumentVersion(s, h, n)
    \/ UNCHANGED gateway /\ \E s \in Address, h \in Submitted(MainHash) : signDocument(s, h)
    \/ Exploring /\ UNCHANGED gateway /\ \E s \in Address, h \in Submitted(MainHash) : approveDocument(s, h)
    \/ Exploring /\ UNCHANGED gateway /\ \E s \in Address, h \in Submitted(MainHash) : rejectDocument(s, h)
    \/ Exploring /\ UNCHANGED gateway /\ \E s \in Address, n \in Address : addNotary(s, n)
    \/ Exploring /\ UNCHANGED gateway /\ \E s \in Address, n \in Address : removeNotary(s, n)

SpecLiveness ==
    /\ Init
    /\ [][NextLive]_vars
    /\ \A s \in Address, h \in MainHash : WF_vars(UNCHANGED gateway /\ signDocument(s, h))

\* The gateway runs: accounts send transactions of their own, and end users
\* post requests to the gateway once it has started with some account's key.
GatewaySignerLists == {<<>>, <<"alice">>, <<"owner", "alice">>}

NextGateway ==
    \/ NextOver(MainHash, GatewaySignerLists)
    \/ \E key \in Address \cup {NoWallet} : initializeBlockchain(key)
    \/ Exploring /\ \E user \in Address, h \in Submitted(MainHash) :
           PostNotarize(user, h, GatewaySignerLists)
    \/ Exploring /\ \E user \in Address, h \in Submitted(MainHash), n \in Submitted(MainHash) :
           PostVersion(user, h, n)
    \/ Exploring /\ \E user \in Address, h \in Submitted(MainHash) : PostSign(user, h)
    \/ Exploring /\ \E user \in Address, h \in Submitted(MainHash) : PostApprove(user, h)
    \/ Exploring /\ \E user \in Address, h \in Submitted(MainHash) : PostReject(user, h)

SpecGateway == Init /\ [][NextGateway]_vars

\* ================================================================== claims
\* the identities stored in the required-signer list of h
Listed(h) == {documents[h].requiredSigners[i] : i \in 1..Len(documents[h].requiredSigners)}

\* the required-signer list of h names no identity twice
DuplicateFree(h) == Cardinality(Listed(h)) = Len(documents[h].requiredSigners)

\* the number of logged events of this name about h by these actors
Logged(name, h, actors) ==
    LET about == {e \in BagToSet(eventLog) :
                      e.event = name /\ e.documentHash = h /\ e.actor \in actors}
    IN  BagCardinality([e \in about |-> eventLog[e]])

\* the account is the owner or in the notary set
Authorized(a) == a = owner \/ authorizedNotaries[a]

\* the error kind (spec.md, section 7) that a revert message stands for
ErrorKind(msg) ==
    CASE msg = "ok" -> "ok"
      [] msg \in {"Only owner can perform this action", "Not authorized notary",
                  "Not a required signer"} -> "Unauthorized"
      [] msg \in {"Document does not exist", "No versions found"} -> "NotFound"
      [] msg \in {"Document already notarized", "New version hash already exists",
                  "Already signed", "Already approved"} -> "Conflict"
      [] msg \in {"Document not in pending status", "Invalid document status",
                  "Can only reject pending documents"} -> "InvalidState"

\* the status changes of the state machine summary
AllowedTransitions ==
    {<<"PENDING", "SIGNED">>, <<"SIGNED", "APPROVED">>, <<"PENDING", "REJECTED">>}

\* C1: a document's status changes only along PENDING->SIGNED,
\* SIGNED->APPROVED and PENDING->REJECTED, and no document is ever ARCHIVED.
C1_StatusTransitions ==
    /\ [](\A h \in Hash : documents[h].status # "ARCHIVED")
    /\ [][\A h \in Hash :
            documents'[h].status # documents[h].status
            => <<documents[h].status, documents'[h].status>> \in AllowedTransitions]_vars

C1_Witness ==
    \E h \in Hash : documents[h].status = "APPROVED" /\ documents[h].signerCount = 2

\* C2: notarizeDocument succeeds at most once for a hash, and once a document
\* exists at h (notarized or created as a version) every notarizeDocument of
\* h by an authorized caller reverts with "Document already notarized".
C2_NotarizeOnce ==
    \A h \in Hash :
        /\ Logged("DocumentNotarized", h, Address) <= 1
        /\ documents[h].exists =>
               \A s \in Address :
                   Authorized(s) =>
                       /\ notarizeDocumentRequire(s, h) = "Document already notarized"
                       /\ ErrorKind(notarizeDocumentRequire(s, h)) = "Conflict"

C2_Witness ==
    \E h, n \in Hash :
        /\ documents[h].exists /\ Logged("DocumentNotarized", h, Address) = 1
        /\ documents[n].exists /\ Logged("DocumentNotarized", n, Address) = 0

\* C3: an identity signs a document at most once; once it has signed, its
\* signDocument on that document reverts with "Already signed".
C3_SignOnce ==
    \A h \in Hash, s \in Address :
        /\ Logged("DocumentSigned", h, {s}) <= 1
        /\ documents[h].hasSigned[s] =>
               /\ signDocumentRequire(s, h) = "Already signed"
               /\ ErrorKind(signDocumentRequire(s, h)) = "Conflict"

C3_Witness ==
    \E h \in Hash, s \in Address :
        documents[h].hasSigned[s] /\ documents[h].status = "PENDING"

\* C4: an identity approves a document at most once; once it has approved,
\* its approveDocument on that document reverts with "Already approved".
C4_ApproveOnce ==
    \A h \in Hash, s \in Address :
        /\ Logged("DocumentApproved", h, {s}) <= 1
        /\ Cardinality({i \in 1..Len(documents[h].approvers) :
                            documents[h].approvers[i] = s}) <= 1
        /\ documents[h].hasApproved[s] =>
               /\ approveDocumentRequire(s, h) = "Already approved"
               /\ ErrorKind(approveDocumentRequire(s, h)) = "Conflict"

C4_Witness ==
    \E h \in Hash, s \in Address :
        documents[h].hasApproved[s] /\ documents[h].status \in {"PENDING", "SIGNED"}

\* C5: signerCount never exceeds the length of the stored required-signer
\* list, duplicates counted individually.
C5_SignerCountBound ==
    \A h \in Hash : documents[h].signerCount <= Len(documents[h].requiredSigners)

C5_Witness ==
    \E h \in Hash :
        /\ documents[h].signerCount = Len(documents[h].requiredSigners)
        /\ documents[h].signerCount = 2

\* C6: in the version sequence of every lineage exactly one entry has
\* isLatest set, and it is the last entry.
C6_OneLatest ==
    \A r \in Hash :
        Len(getDocumentVersions(r)) > 0 =>
            {i \in 1..Len(getDocumentVersions(r)) : getDocumentVersions(r)[i].isLatest}
                = {Len(getDocumentVersions(r))}

C6_Witness == \E r \in Hash : Len(getDocumentVersions(r)) = 3

\* C7: an identity that has not approved may approve a PENDING or SIGNED
\* document whatever its roles; the approval adds 1 to approverCount, leaves
\* a PENDING document PENDING and makes a SIGNED document APPROVED.
C7_ApproveEffect ==
    /\ [](\A h \in Hash, s \in Address :
            (documents[h].exists /\ ~documents[h].hasApproved[s]
             /\ documents[h].status \in {"PENDING", "SIGNED"})
            => approveDocumentRequire(s, h) = "ok")
    /\ [][\A h \in Hash, s \in Address :
            (~documents[h].hasApproved[s] /\ documents'[h].hasApproved[s])
            => /\ documents'[h].approverCount = documents[h].approverCount + 1
               /\ documents[h].status = "PENDING" => documents'[h].status = "PENDING"
               /\ documents[h].status = "SIGNED" => documents'[h].status = "APPROVED"]_vars

C7_Witness ==
    \E h \in Hash, s \in Address :
        /\ documents[h].hasApproved[s] /\ documents[h].status = "APPROVED"
        /\ s \notin Listed(h) /\ ~Authorized(s)

\* C8: with n >= 1 pairwise distinct required signers and no reject, the
\* document is PENDING while fewer than n have signed and SIGNED (or, after
\* an approval, APPROVED) once all n have, whatever the order of signing;
\* every required signer that has not signed a PENDING document may sign.
C8_SignedAtLast ==
    \A h \in Hash :
        (documents[h].exists /\ Len(documents[h].requiredSigners) >= 1
         /\ DuplicateFree(h) /\ documents[h].status # "REJECTED")
        => /\ documents[h].signerCount
                  = Cardinality({s \in Address : documents[h].hasSigned[s]})
           /\ documents[h].signerCount < Len(documents[h].requiredSigners)
                  => documents[h].status = "PENDING"
           /\ documents[h].signerCount = Len(documents[h].requiredSigners)
                  => documents[h].status \in {"SIGNED", "APPROVED"}
           /\ \A s \in Listed(h) :
                  ~documents[h].hasSigned[s] => signDocumentRequire(s, h) = "ok"

C8_Witness ==
    \E h \in Hash :
        /\ Len(documents[h].requiredSigners) = 2 /\ DuplicateFree(h)
        /\ documents[h].signerCount = 2 /\ documents[h].status = "SIGNED"

\* C9: signDocument by a caller that is not in the stored required-signer
\* list reverts with "Not a required signer", so every identity that has
\* signed is listed; the owner and the notaries are no exception.
C9_OnlyListedSign ==
    \A h \in Hash, s \in Address :
        /\ documents[h].hasSigned[s] => s \in Listed(h)
        /\ Logged("DocumentSigned", h, {s}) > 0 => s \in Listed(h)
        /\ (documents[h].exists /\ s \notin Listed(h))
               => /\ signDocumentRequire(s, h) = "Not a required signer"
                  /\ ErrorKind(signDocumentRequire(s, h)) = "Unauthorized"

C9_Witness ==
    \E h \in Hash :
        /\ documents[h].signerCount = 1
        /\ owner \notin Listed(h)
        /\ documents[h].notary \notin Listed(h)

\* C10: notarizeDocument succeeds only for a caller that is, at the call,
\* the owner or in the notary set; for any other caller, one removed from
\* the set included, it reverts with "Not authorized notary" whether or not
\* the hash exists.
C10_NotarizeAuthorized ==
    /\ [](\A h \in Hash, s \in Address :
            ~Authorized(s)
            => /\ notarizeDocumentRequire(s, h) = "Not authorized notary"
               /\ ErrorKind(notarizeDocumentRequire(s, h)) = "Unauthorized")
    /\ [][\A h \in Hash :
            (~documents[h].exists /\ documents'[h].exists
             /\ getDocumentVersions(h)' # <<>>)
            => Authorized(documents'[h].notary)]_vars

C10_Witness ==
    \E h, g \in Hash :
        /\ documents[h].exists /\ documents[h].notary # owner
        /\ ~Authorized(documents[h].notary)
        /\ ~documents[g].exists

\* C11: rejectDocument by a listed caller on a PENDING document succeeds
\* whether or not the caller has signed; it sets the status to REJECTED and
\* leaves signerCount, approverCount, the signed and approved marks and the
\* approver list as they were. By a caller that is not listed it reverts with
\* "Not a required signer".
C11_RejectEffect ==
    /\ [](\A h \in Hash, s \in Address :
            /\ (documents[h].exists /\ s \in Listed(h)
                /\ documents[h].status = "PENDING")
               => rejectDocumentRequire(s, h) = "ok"
            /\ (documents[h].exists /\ s \notin Listed(h))
               => /\ rejectDocumentRequire(s, h) = "Not a required signer"
                  /\ ErrorKind(rejectDocumentRequire(s, h)) = "Unauthorized")
    /\ [][\A h \in Hash, s \in Address :
            (rejectDocumentRequire(s, h) = "ok" /\ rejectDocument(s, h))
            => /\ documents'[h].status = "REJECTED"
               /\ documents'[h].signerCount = documents[h].signerCount
               /\ documents'[h].approverCount = documents[h].approverCount
               /\ documents'[h].hasSigned = documents[h].hasSigned
               /\ documents'[h].hasApproved = documents[h].hasApproved
               /\ documents'[h].approvers = documents[h].approvers]_vars

C11_Witness ==
    \E h \in Hash, s \in Address :
        /\ documents[h].status = "REJECTED"
        /\ Logged("DocumentRejected", h, {s}) = 1
        /\ documents[h].hasSigned[s] /\ documents[h].signerCount = 1

\* C12: rejectDocument by a listed caller on a SIGNED, APPROVED or REJECTED
\* document reverts with "Can only reject pending documents" and the
\* document stays as it was: no rejectDocument takes effect on a document
\* that is not PENDING.
C12_RejectOnlyPending ==
    /\ [](\A h \in Hash, s \in Address :
            (documents[h].exists /\ s \in Listed(h)
             /\ documents[h].status \in {"SIGNED", "APPROVED", "REJECTED"})
            => /\ rejectDocumentRequire(s, h) = "Can only reject pending documents"
               /\ ErrorKind(rejectDocumentRequire(s, h)) = "InvalidState")
    /\ [][\A h \in Hash, s \in Address :
            (documents[h].status # "PENDING" /\ rejectDocument(s, h))
            => documents'[h] = documents[h]]_vars

C12_Witness ==
    \E h, g \in Hash :
        /\ documents[h].status = "SIGNED" /\ Listed(h) # {}
        /\ documents[g].status = "REJECTED" /\ Listed(g) # {}

\* C13: on a REJECTED document signDocument by a listed caller that has not
\* signed reverts with "Document not in pending status"; signDocument takes
\* effect on PENDING documents only, and the status and the signerCount of a
\* REJECTED document never change again.
C13_NoSignAfterReject ==
    /\ [](\A h \in Hash, s \in Address :
            (documents[h].exists /\ s \in Listed(h) /\ ~documents[h].hasSigned[s]
             /\ documents[h].status # "PENDING")
            => /\ signDocumentRequire(s, h) = "Document not in pending status"
               /\ ErrorKind(signDocumentRequire(s, h)) = "InvalidState")
    /\ [][\A h \in Hash :
            /\ (\E s \in Address : documents[h].status # "PENDING" /\ signDocument(s, h))
               => documents'[h] = documents[h]
            /\ documents[h].status = "REJECTED"
               => /\ documents'[h].status = "REJECTED"
                  /\ documents'[h].signerCount = documents[h].signerCount]_vars

C13_Witness ==
    \E h \in Hash, s \in Address :
        /\ documents[h].status = "REJECTED" /\ documents[h].signerCount = 1
        /\ s \in Listed(h) /\ ~documents[h].hasSigned[s]

\* C14 as stated: on an APPROVED document, approveDocument by an identity
\* that has not approved it passes its requires.
C14_ApproveOnApproved ==
    \A h \in Hash, s \in Address :
        (documents[h].status = "APPROVED" /\ ~documents[h].hasApproved[s])
        => approveDocumentRequire(s, h) = "ok"

\* C14: on an APPROVED document no approveDocument passes its requires, an
\* identity that has not approved it gets "Invalid document status", and the
\* document record, approverCount and approver list included, never changes
\* again.
C14_ApprovedIsFinal ==
    /\ [](\A h \in Hash, s \in Address :
            documents[h].status = "APPROVED"
            => /\ approveDocumentRequire(s, h) # "ok"
               /\ ~documents[h].hasApproved[s]
                  => ErrorKind(approveDocumentRequire(s, h)) = "InvalidState")
    /\ [][\A h \in Hash :
            documents[h].status = "APPROVED" => documents'[h] = documents[h]]_vars

C14_Witness ==
    \E h \in Hash, s \in Address :
        /\ documents[h].status = "APPROVED" /\ documents[h].approverCount = 1
        /\ ~documents[h].hasApproved[s] /\ s \in Listed(h)

\* C15: approveDocument on an APPROVED or REJECTED document by a caller that
\* has not approved it reverts with "Invalid document status"; approverCount,
\* the approver list and the status stay as they were.
C15_ApproveInvalidState ==
    /\ [](\A h \in Hash, s \in Address :
            (documents[h].exists /\ ~documents[h].hasApproved[s]
             /\ documents[h].status \in {"APPROVED", "REJECTED"})
            => /\ approveDocumentRequire(s, h) = "Invalid document status"
               /\ ErrorKind(approveDocumentRequire(s, h)) = "InvalidState")
    /\ [][\A h \in Hash, s \in Address :
            (documents[h].status \in {"APPROVED", "REJECTED"}
             /\ ~documents[h].hasApproved[s] /\ approveDocument(s, h))
            => /\ documents'[h].approverCount = documents[h].approverCount
               /\ documents'[h].approvers = documents[h].approvers
               /\ documents'[h].status = documents[h].status]_vars

C15_Witness ==
    \E h \in Hash, s \in Address :
        /\ documents[h].status = "REJECTED" /\ documents[h].approverCount = 1
        /\ ~documents[h].hasApproved[s]

\* C16: a call that fails a modifier or a require (unknown document,
\* unauthorized caller, conflict, invalid status) leaves everything as it
\* was: documents, marks and counts, version sequences, latest pointers,
\* notary set, totalDocuments and the event log.
C16_FailedCallNoEffect ==
    [][/\ \A s \in Address, h \in Hash :
            /\ (notarizeDocumentRequire(s, h) # "ok"
                /\ notarizeDocument(s, h, VersionSignerLists)) => UNCHANGED vars
            /\ (signDocumentRequire(s, h) # "ok" /\ signDocument(s, h))
               => UNCHANGED vars
            /\ (approveDocumentRequire(s, h) # "ok" /\ approveDocument(s, h))
               => UNCHANGED vars
            /\ (rejectDocumentRequire(s, h) # "ok" /\ rejectDocument(s, h))
               => UNCHANGED vars
            /\ \A n \in Hash :
                   (createDocumentVersionRequire(h, n) # "ok"
                    /\ createDocumentVersion(s, h, n)) => UNCHANGED vars
       /\ \A s \in Address, n \in Address :
            /\ (addNotaryRequire(s) # "ok" /\ addNotary(s, n)) => UNCHANGED vars
            /\ (removeNotaryRequire(s) # "ok" /\ removeNotary(s, n))
               => UNCHANGED vars]_vars

C16_Witness ==
    \E h, g \in Hash, s, t \in Address :
        /\ ErrorKind(signDocumentRequire(s, g)) = "NotFound"
        /\ ErrorKind(notarizeDocumentRequire(s, h)) = "Unauthorized"
        /\ ErrorKind(addNotaryRequire(s)) = "Unauthorized"
        /\ ErrorKind(notarizeDocumentRequire(t, h)) = "Conflict"
        /\ ErrorKind(approveDocumentRequire(t, h)) = "InvalidState"
        /\ documents[h].approverCount = 1

\* C17: transactions execute one after the other, so of two conflicting
\* calls submitted together (notarizeDocument of one hash by two callers
\* that could each succeed, signDocument twice by one identity,
\* approveDocument twice by one identity) the first executed succeeds and,
\* in the state it leaves, the other fails a require of kind Conflict, which
\* reverts it and leaves that state as the final one; this holds for both
\* orders.
C17_SecondCallConflicts ==
    [][\A h \in Hash, s \in Address :
          /\ (~documents[h].exists /\ documents'[h].exists
              /\ getDocumentVersions(h)' # <<>>)
             => \A t \in Address :
                    notarizeDocumentRequire(t, h) = "ok"
                    => ErrorKind(notarizeDocumentRequire(t, h)') = "Conflict"
          /\ (~documents[h].hasSigned[s] /\ documents'[h].hasSigned[s])
             => ErrorKind(signDocumentRequire(s, h)') = "Conflict"
          /\ (~documents[h].hasApproved[s] /\ documents'[h].hasApproved[s])
             => ErrorKind(approveDocumentRequire(s, h)') = "Conflict"]_vars

C17_Witness ==
    \E h \in Hash, s \in Address :
        /\ documents[h].hasSigned[s] /\ documents[h].hasApproved[s]
        /\ documents[h].status = "SIGNED"
        /\ ErrorKind(signDocumentRequire(s, h)) = "Conflict"
        /\ ErrorKind(approveDocumentRequire(s, h)) = "Conflict"
        /\ \A t \in Address :
               Authorized(t) => ErrorKind(notarizeDocumentRequire(t, h)) = "Conflict"

\* C18 as stated: every call that changes the storage, addNotary and
\* removeNotary included, appends exactly one event to the log.
C18_EveryMutationLogged ==
    [][storage' # storage
       => /\ eventLog \sqsubseteq eventLog'
          /\ EventCount' = EventCount + 1]_vars

\* C18: every successful notarizeDocument, createDocumentVersion,
\* signDocument, approveDocument and rejectDocument appends exactly one event,
\* one of the five declared events, to the log; addNotary and removeNotary
\* change the notary set and append nothing; no call removes or rewrites a
\* logged event.
C18_DocumentMutationLogged ==
    [][/\ eventLog \sqsubseteq eventLog'
       /\ <<documents, documentVersions, latestVersionHash, totalDocuments>>'
              # <<documents, documentVersions, latestVersionHash, totalDocuments>>
          => \E e \in BagToSet(eventLog') :
                 /\ eventLog' = eventLog (+) SetToBag({e})
                 /\ e.event \in {"DocumentNotarized", "DocumentVersionCreated",
                                 "DocumentSigned", "DocumentApproved",
                                 "DocumentRejected"}
       /\ authorizedNotaries' # authorizedNotaries => eventLog' = eventLog]_vars

C18_Witness ==
    \E h \in Hash, s \in Address :
        /\ s # owner /\ authorizedNotaries[s]
        /\ documents[h].status = "REJECTED" /\ EventCount = 2

\* C19: the version sequence of every lineage is a chain: the entry at
\* position i has version i, the first entry has the zero hash as its
\* previousVersionHash, and every later entry has the documentHash of the
\* entry before it.
C19_VersionChain ==
    \A r \in Hash :
        \A i \in 1..Len(getDocumentVersions(r)) :
            /\ getDocumentVersions(r)[i].version = i
            /\ i = 1 => getDocumentVersions(r)[i].previousVersionHash = ZeroHash
            /\ i > 1 => getDocumentVersions(r)[i].previousVersionHash
                            = getDocumentVersions(r)[i - 1].documentHash

C19_Witness ==
    \E r \in Hash :
        /\ Len(getDocumentVersions(r)) = 3
        /\ getDocumentVersions(r)[3].previousVersionHash
               = getDocumentVersions(r)[2].documentHash
        /\ getDocumentVersions(r)[2].documentHash # r

\* C20: for every notarized hash r, getLatestVersion(r) is the documentHash
\* of the last entry of getDocumentVersions(r), whose first entry is r
\* itself; for every hash never notarized, hashes created as versions
\* included, getLatestVersion is the zero hash and getDocumentVersions is
\* empty.
C20_LatestIsLastEntry ==
    \A r \in Hash :
        /\ Logged("DocumentNotarized", r, Address) > 0
           => /\ Len(getDocumentVersions(r)) > 0
              /\ getDocumentVersions(r)[1].documentHash = r
              /\ getLatestVersion(r)
                     = getDocumentVersions(r)[Len(getDocumentVersions(r))].documentHash
        /\ Logged("DocumentNotarized", r, Address) = 0
           => /\ getLatestVersion(r) = ZeroHash
              /\ getDocumentVersions(r) = <<>>

C20_Witness ==
    \E r, v \in Hash :
        /\ Logged("DocumentNotarized", r, Address) = 1
        /\ getLatestVersion(r) = v /\ v # r
        /\ documents[v].exists /\ getLatestVersion(v) = ZeroHash
        /\ Len(getDocumentVersions(r)) = 2

\* the entries of all version sequences whose documentHash is n
VersionEntries(n) ==
    {<<r, i>> \in Hash \X (1..(Cardinality(Hash) + 1)) :
        i <= Len(getDocumentVersions(r)) /\ getDocumentVersions(r)[i].documentHash = n}

\* C21 as stated: createDocumentVersion whose new hash already identifies a
\* document fails with a Conflict message, whatever the original hash is.
C21_ExistingNewHashConflicts ==
    \A o, n \in Hash :
        documents[n].exists
        => ErrorKind(createDocumentVersionRequire(o, n)) = "Conflict"

\* C21: createDocumentVersion whose new hash already identifies a document
\* (a root, a version, or the original hash itself) reverts: with "New
\* version hash already exists" when the original hash identifies a document,
\* with "Document does not exist" when it does not, the modifier coming
\* first. So no hash is the documentHash of two version entries.
C21_NewHashUnused ==
    /\ \A o, n \in Hash :
          documents[n].exists
          => /\ documents[o].exists
                => /\ createDocumentVersionRequire(o, n)
                          = "New version hash already exists"
                   /\ ErrorKind(createDocumentVersionRequire(o, n)) = "Conflict"
             /\ ~documents[o].exists
                => ErrorKind(createDocumentVersionRequire(o, n)) = "NotFound"
    /\ \A n \in Hash : Cardinality(VersionEntries(n)) <= 1

C21_Witness ==
    \E o, n, g \in Hash :
        /\ o # n /\ documents[o].exists /\ getLatestVersion(o) = n
        /\ ErrorKind(createDocumentVersionRequire(o, n)) = "Conflict"
        /\ ErrorKind(createDocumentVersionRequire(n, n)) = "Conflict"
        /\ ~documents[g].exists
        /\ ErrorKind(createDocumentVersionRequire(g, n)) = "NotFound"

\* C22: createDocumentVersion passes its requires only when the original
\* hash was notarized: it reverts with "Document does not exist" when the
\* original hash is unknown and with "No versions found" when the original
\* hash exists only as a version, so only notarized hashes have a version
\* sequence.
C22_OnlyRootsVersioned ==
    \A o \in Hash :
        /\ \A n \in Hash :
              /\ createDocumentVersionRequire(o, n) = "ok"
                 => Logged("DocumentNotarized", o, Address) = 1
              /\ ~documents[o].exists
                 => /\ createDocumentVersionRequire(o, n) = "Document does not exist"
                    /\ ErrorKind(createDocumentVersionRequire(o, n)) = "NotFound"
              /\ (documents[o].exists /\ Logged("DocumentNotarized", o, Address) = 0)
                 => createDocumentVersionRequire(o, n) # "ok"
        /\ Len(getDocumentVersions(o)) > 0
           => Logged("DocumentNotarized", o, Address) = 1

C22_Witness ==
    \E o, v, n \in Hash :
        /\ getLatestVersion(o) = v /\ v # o
        /\ documents[v].exists /\ Logged("DocumentNotarized", v, Address) = 0
        /\ ~documents[n].exists
        /\ createDocumentVersionRequire(v, n) = "No versions found"
        /\ createDocumentVersionRequire(o, n) = "ok"

\* C23: a successful createDocumentVersion(r, n) writes at n a document with
\* the notary and the required signers of r, status PENDING, signerCount and
\* approverCount 0, and no identity marked as signed or approved, whatever
\* the status, signatures and approvals of r and of the earlier versions.
C23_VersionStartsPending ==
    [][\A r, n \in Hash, s \in Address :
          (createDocumentVersionRequire(r, n) = "ok" /\ createDocumentVersion(s, r, n))
          => /\ documents'[n].exists
             /\ documents'[n].notary = documents[r].notary
             /\ documents'[n].requiredSigners = documents[r].requiredSigners
             /\ documents'[n].status = "PENDING"
             /\ documents'[n].signerCount = 0
             /\ documents'[n].approverCount = 0
             /\ documents'[n].approvers = <<>>
             /\ \A a \in Address :
                    /\ ~documents'[n].hasSigned[a]
                    /\ ~documents'[n].hasApproved[a]]_vars

C23_Witness ==
    \E r, n \in Hash :
        /\ n # r /\ getLatestVersion(r) = n
        /\ documents[r].status = "APPROVED" /\ documents[r].signerCount = 1
        /\ documents[n].status = "PENDING" /\ documents[n].signerCount = 0
        /\ documents[n].approverCount = 0
        /\ documents[n].requiredSigners = documents[r].requiredSigners

\* C24: a document with an empty required-signer list is PENDING in every
\* reachable state: no signDocument and no rejectDocument passes the
\* onlyRequiredSigner modifier on it, none was ever logged, and its approvals
\* only add to approverCount.
C24_EmptyListStaysPending ==
    \A h \in Hash :
        (documents[h].exists /\ documents[h].requiredSigners = <<>>)
        => /\ documents[h].status = "PENDING"
           /\ documents[h].signerCount = 0
           /\ Logged("DocumentSigned", h, Address) = 0
           /\ Logged("DocumentRejected", h, Address) = 0
           /\ documents[h].approverCount = Logged("DocumentApproved", h, Address)
           /\ \A s \in Address :
                  /\ signDocumentRequire(s, h) = "Not a required signer"
                  /\ rejectDocumentRequire(s, h) = "Not a required signer"

C24_Witness ==
    \E h \in Hash :
        /\ documents[h].exists /\ documents[h].requiredSigners = <<>>
        /\ documents[h].approverCount = 2 /\ documents[h].status = "PENDING"

\* C25: addNotary and removeNotary pass the onlyOwner modifier for the owner
\* only, whatever the target and whether or not it is in the notary set; for
\* every other caller, an authorized notary included, they revert with "Only
\* owner can perform this action" and the notary set stays as it was. Called
\* by the owner they set the target's entry and no other.
C25_OwnerManagesNotaries ==
    /\ [](\A s \in Address :
            /\ s = owner => /\ addNotaryRequire(s) = "ok"
                            /\ removeNotaryRequire(s) = "ok"
            /\ s # owner
               => /\ addNotaryRequire(s) = "Only owner can perform this action"
                  /\ removeNotaryRequire(s) = "Only owner can perform this action"
                  /\ ErrorKind(addNotaryRequire(s)) = "Unauthorized"
                  /\ ErrorKind(removeNotaryRequire(s)) = "Unauthorized")
    /\ [][\A s, n \in Address :
            /\ (s # owner /\ (addNotary(s, n) \/ removeNotary(s, n)))
               => UNCHANGED authorizedNotaries
            /\ (s = owner /\ addNotary(s, n))
               => /\ authorizedNotaries'[n]
                  /\ \A a \in Address \ {n} :
                         authorizedNotaries'[a] = authorizedNotaries[a]
            /\ (s = owner /\ removeNotary(s, n))
               => /\ ~authorizedNotaries'[n]
                  /\ \A a \in Address \ {n} :
                         authorizedNotaries'[a] = authorizedNotaries[a]]_vars

C25_Witness ==
    \E s \in Address, h \in Hash :
        /\ s # owner /\ authorizedNotaries[s] /\ documents[h].notary = s
        /\ ErrorKind(addNotaryRequire(s)) = "Unauthorized"
        /\ ~authorizedNotaries[owner]

\* C26: the owner is the deployer in every reachable state, and its
\* notarizeDocument of an unused hash passes the requires in every reachable
\* state, also when the owner is not in the notary set.
C26_OwnerFixed ==
    /\ owner = Deployer
    /\ \A h \in Hash :
          ~documents[h].exists => notarizeDocumentRequire(owner, h) = "ok"

C26_Witness ==
    \E h, g \in Hash :
        /\ ~authorizedNotaries[owner]
        /\ documents[h].exists /\ documents[h].notary = owner
        /\ ~documents[g].exists /\ notarizeDocumentRequire(owner, g) = "ok"

\* the number of DocumentNotarized events logged
NotarizedCount ==
    LET notarized == {e \in BagToSet(eventLog) : e.event = "DocumentNotarized"}
    IN  BagCardinality([e \in notarized |-> eventLog[e]])

\* C27: totalDocuments is the number of successful notarizeDocument calls so
\* far, 0 after construction: no other call, successful or failed, changes it.
C27_TotalDocuments ==
    /\ totalDocuments = NotarizedCount
    /\ totalDocuments = Cardinality({h \in Hash : Len(getDocumentVersions(h)) > 0})

C27_Witness ==
    \E n \in Hash :
        /\ totalDocuments = 2 /\ EventCount = 4
        /\ documents[n].exists /\ Logged("DocumentNotarized", n, Address) = 0
        /\ \E s \in Address : ~authorizedNotaries[s]

\* C28: right after a successful notarizeDocument(h, m, S) by a caller,
\* verifyDocument(h) returns exists = true, notary = caller, status PENDING,
\* signerCount 0 and approverCount 0, getDocumentMetadata(h) returns m,
\* getRequiredSigners(h) returns S in the same order with its duplicates, and
\* hasSigned(h, id) returns false for every id.
C28_NotarizedRecord ==
    [][\A h \in Hash :
          (~documents[h].exists /\ documents'[h].exists)
          => \A s \in Address, m \in Metadata, S \in SignerLists :
                 (notarizeDocumentRequire(s, h) = "ok"
                  /\ notarizeDocumentApply(s, h, m, S))
                 => /\ verifyDocument(h)'
                          = [exists |-> TRUE, notary |-> s, status |-> "PENDING",
                             signerCount |-> 0, approverCount |-> 0]
                    /\ getDocumentMetadata(h)' = Returned(m)
                    /\ getRequiredSigners(h)' = Returned(S)
                    /\ \A id \in Address : hasSigned(h, id)' = Returned(FALSE)]_vars

C28_Witness ==
    \E h \in Hash :
        /\ getRequiredSigners(h) = Returned(<<"alice", "alice">>)
        /\ verifyDocument(h)
               = [exists |-> TRUE, notary |-> "alice", status |-> "PENDING",
                  signerCount |-> 0, approverCount |-> 0]
        /\ getDocumentMetadata(h) = Returned("contract")

\* C29: for a hash with no document verifyDocument returns exists = false
\* and the zero values of the other fields, without reverting, while
\* getDocumentMetadata, getRequiredSigners and hasSigned revert with "Document
\* does not exist"; for a hash with a document all four return the stored
\* values. The four are views: they read the storage and write nothing.
C29_ReadsOfUnknownHash ==
    \A h \in Hash :
        /\ ~documents[h].exists
           => /\ verifyDocument(h)
                    = [exists |-> FALSE, notary |-> ZeroAddress, status |-> "PENDING",
                       signerCount |-> 0, approverCount |-> 0]
              /\ getDocumentMetadata(h) = Reverted("Document does not exist")
              /\ getRequiredSigners(h) = Reverted("Document does not exist")
              /\ \A id \in Address :
                     hasSigned(h, id) = Reverted("Document does not exist")
              /\ ErrorKind(getDocumentMetadata(h).message) = "NotFound"
        /\ documents[h].exists
           => /\ verifyDocument(h).exists
              /\ getDocumentMetadata(h) = Returned(documents[h].metadata)
              /\ getRequiredSigners(h) = Returned(documents[h].requiredSigners)
              /\ \A id \in Address :
                     hasSigned(h, id) = Returned(documents[h].hasSigned[id])

C29_Witness ==
    \E h, g \in Hash, id \in Address :
        /\ verifyDocument(h).exists /\ hasSigned(h, id) = Returned(TRUE)
        /\ getDocumentMetadata(h) = Returned("contract")
        /\ ~verifyDocument(g).exists /\ getDocumentMetadata(g).reverted
        /\ hasSigned(g, id).reverted /\ getRequiredSigners(g).reverted

\* C30: a document whose required-signer list names an identity more than
\* once has signerCount below the length of the list, and status PENDING or
\* REJECTED, in every reachable state.
C30_DuplicateNeverSigned ==
    \A h \in Hash :
        (documents[h].exists /\ ~DuplicateFree(h))
        => /\ documents[h].signerCount < Len(documents[h].requiredSigners)
           /\ documents[h].status \in {"PENDING", "REJECTED"}

C30_Witness ==
    \E h \in Hash :
        /\ documents[h].exists /\ ~DuplicateFree(h)
        /\ documents[h].signerCount = Cardinality(Listed(h))
        /\ documents[h].approverCount = 1 /\ documents[h].status = "PENDING"

\* the version entries pushed by createDocumentVersion: original hash, new
\* hash and creator
CreatedVersions ==
    {c \in Hash \X Hash \X Address :
        \E i \in 2..Len(getDocumentVersions(c[1])) :
            /\ getDocumentVersions(c[1])[i].documentHash = c[2]
            /\ getDocumentVersions(c[1])[i].creator = c[3]}

\* C31 as stated: the call of an applied operation, made again by the same
\* caller with the same arguments, fails with the same kind in every later
\* state: Conflict for notarizeDocument, createDocumentVersion, signDocument
\* and approveDocument, InvalidState for rejectDocument.
C31_RetryFailsSameKind ==
    /\ \A h \in Hash, s \in Address :
          /\ Logged("DocumentNotarized", h, {s}) > 0
             => ErrorKind(notarizeDocumentRequire(s, h)) = "Conflict"
          /\ Logged("DocumentSigned", h, {s}) > 0
             => ErrorKind(signDocumentRequire(s, h)) = "Conflict"
          /\ Logged("DocumentApproved", h, {s}) > 0
             => ErrorKind(approveDocumentRequire(s, h)) = "Conflict"
          /\ Logged("DocumentRejected", h, {s}) > 0
             => ErrorKind(rejectDocumentRequire(s, h)) = "InvalidState"
    /\ \A c \in CreatedVersions :
          ErrorKind(createDocumentVersionRequire(c[1], c[2])) = "Conflict"

\* C31: the call of an applied operation, made again by the same caller with
\* the same arguments, fails in every later state: createDocumentVersion with
\* "New version hash already exists", signDocument with "Already signed",
\* approveDocument with "Already approved", rejectDocument with "Can only
\* reject pending documents", and notarizeDocument with "Document already
\* notarized" while the caller is the owner or a notary, with "Not authorized
\* notary" once the caller has been removed from the notary set.
C31_RetryFails ==
    /\ \A h \in Hash, s \in Address :
          /\ Logged("DocumentNotarized", h, {s}) > 0
             => /\ Authorized(s)
                   => ErrorKind(notarizeDocumentRequire(s, h)) = "Conflict"
                /\ ~Authorized(s)
                   => ErrorKind(notarizeDocumentRequire(s, h)) = "Unauthorized"
          /\ Logged("DocumentSigned", h, {s}) > 0
             => signDocumentRequire(s, h) = "Already signed"
          /\ Logged("DocumentApproved", h, {s}) > 0
             => approveDocumentRequire(s, h) = "Already approved"
          /\ Logged("DocumentRejected", h, {s}) > 0
             => rejectDocumentRequire(s, h) = "Can only reject pending documents"
    /\ \A c \in CreatedVersions :
          createDocumentVersionRequire(c[1], c[2]) = "New version hash already exists"

C31_Witness ==
    \E h \in Hash, s \in Address :
        /\ Logged("DocumentNotarized", h, {s}) = 1 /\ ~Authorized(s)
        /\ Logged("DocumentSigned", h, {s}) = 1
        /\ Logged("DocumentApproved", h, {s}) = 1
        /\ \E c \in CreatedVersions : c[1] = h

\* C32: approvals recorded on a PENDING document do not complete it: the
\* signature that brings signerCount to the length of the list makes the
\* document SIGNED whatever approverCount is, and a document becomes APPROVED
\* only from SIGNED, by the approval of an identity that had not approved it.
C32_ApprovedOnlyAfterSigned ==
    [][\A h \in Hash :
          /\ (documents'[h].signerCount = documents[h].signerCount + 1
              /\ documents'[h].signerCount = Len(documents[h].requiredSigners))
             => /\ documents'[h].status = "SIGNED"
                /\ documents'[h].approverCount = documents[h].approverCount
          /\ (documents[h].status # "APPROVED" /\ documents'[h].status = "APPROVED")
             => /\ documents[h].status = "SIGNED"
                /\ documents'[h].approverCount = documents[h].approverCount + 1
                /\ \E s \in Address :
                       /\ ~documents[h].hasApproved[s]
                       /\ documents'[h].hasApproved[s]]_vars

C32_Witness ==
    \E h \in Hash, s, t \in Address :
        /\ s # t /\ documents[h].status = "APPROVED"
        /\ documents[h].approvers = <<s, t>>
        /\ documents[h].signerCount = Len(documents[h].requiredSigners)

\* C33: signDocument, approveDocument and rejectDocument of h leave the
\* notary, the metadata, the required-signer list and the existence of h as
\* they were, leave the record of every other document as it was, versions
\* of the same lineage included, and leave the version sequences, the latest
\* pointers, the notary set and totalDocuments unchanged; a document that
\* exists exists in every later state, with the same notary, metadata and
\* required signers.
C33_SignApproveRejectFrame ==
    [][\A h \in Hash :
          /\ (\E s \in Address :
                  signDocument(s, h) \/ approveDocument(s, h) \/ rejectDocument(s, h))
             => /\ \A g \in Hash \ {h} : documents'[g] = documents[g]
                /\ UNCHANGED <<documentVersions, latestVersionHash,
                               authorizedNotaries, totalDocuments, owner>>
          /\ documents[h].exists
             => /\ documents'[h].exists
                /\ documents'[h].documentHash = documents[h].documentHash
                /\ documents'[h].notary = documents[h].notary
                /\ documents'[h].metadata = documents[h].metadata
                /\ documents'[h].requiredSigners = documents[h].requiredSigners]_vars

C33_Witness ==
    \E r, n \in Hash :
        /\ n # r /\ getLatestVersion(r) = n
        /\ documents[n].status = "REJECTED"
        /\ documents[r].status = "SIGNED" /\ documents[r].approverCount = 0

\* C34: createDocumentVersion has no modifier on the caller and no require on
\* the status: whenever the original hash was notarized and the new hash is
\* unused it passes its requires, for every caller and whatever the status of
\* the original is; it writes the document at the new hash only, and leaves
\* every other document, totalDocuments and the notary set as they were.
C34_AnyoneVersions ==
    /\ [](\A o, n \in Hash :
            (Logged("DocumentNotarized", o, Address) = 1 /\ ~documents[n].exists)
            => createDocumentVersionRequire(o, n) = "ok")
    /\ [][\A s \in Address, o, n \in Hash :
            (createDocumentVersionRequire(o, n) = "ok" /\ createDocumentVersion(s, o, n))
            => /\ \A h \in Hash \ {n} : documents'[h] = documents[h]
               /\ UNCHANGED <<totalDocuments, authorizedNotaries, owner>>]_vars

C34_Witness ==
    \E r \in Hash, c \in Address :
        /\ Len(getDocumentVersions(r)) = 2 /\ getDocumentVersions(r)[2].creator = c
        /\ c # owner /\ ~authorizedNotaries[c] /\ c \notin Listed(r)
        /\ documents[r].status = "REJECTED"

\* the identities marked in a hasSigned or hasApproved mapping
Marked(mapping) == {a \in Address : mapping[a]}

\* C35: every existing document hash is the hash of exactly one version
\* entry over all lineages: a notarized hash is entry 1 of its own sequence,
\* a hash made by createDocumentVersion is an entry of the sequence it was
\* created under, and a hash that identifies no document is in no sequence.
C35_OneEntryPerHash ==
    \A n \in Hash :
        /\ documents[n].exists => Cardinality(VersionEntries(n)) = 1
        /\ Logged("DocumentNotarized", n, Address) = 1 => VersionEntries(n) = {<<n, 1>>}
        /\ \A c \in CreatedVersions :
               c[2] = n => \E i \in 2..Len(getDocumentVersions(c[1])) :
                               VersionEntries(n) = {<<c[1], i>>}
        /\ ~documents[n].exists => VersionEntries(n) = {}

C35_Witness ==
    \E r, n, m \in Hash :
        /\ Cardinality({r, n, m}) = 3
        /\ VersionEntries(r) = {<<r, 1>>}
        /\ VersionEntries(n) = {<<r, 2>>}
        /\ VersionEntries(m) = {<<r, 3>>}

\* C36: every document of a lineage has the notary, the required-signer list
\* and the metadata of the root document of the lineage.
C36_LineageSharesRootFields ==
    \A r \in Hash :
        \A i \in 1..Len(getDocumentVersions(r)) :
            LET n == getDocumentVersions(r)[i].documentHash
            IN  /\ documents[n].exists
                /\ documents[n].notary = documents[r].notary
                /\ documents[n].requiredSigners = documents[r].requiredSigners
                /\ documents[n].metadata = documents[r].metadata

C36_Witness ==
    \E r \in Hash :
        /\ Len(getDocumentVersions(r)) = 3
        /\ getDocumentVersions(r)[3].creator # documents[r].notary
        /\ documents[r].requiredSigners # <<>>
        /\ documents[r].status # "PENDING"
        /\ documents[getDocumentVersions(r)[3].documentHash].status = "PENDING"

\* C37: for every document signerCount is the number of identities marked as
\* signed, approverCount is the length of the approver list and the number of
\* identities marked as approved, and the approver list names nobody twice.
C37_CountsMatchMarks ==
    \A h \in Hash :
        LET approvers == documents[h].approvers
        IN  /\ documents[h].signerCount = Cardinality(Marked(documents[h].hasSigned))
            /\ documents[h].approverCount = Len(approvers)
            /\ documents[h].approverCount = Cardinality(Marked(documents[h].hasApproved))
            /\ \A i, j \in 1..Len(approvers) : approvers[i] = approvers[j] => i = j
            /\ {approvers[i] : i \in 1..Len(approvers)} = Marked(documents[h].hasApproved)

C37_Witness ==
    \E h \in Hash :
        /\ documents[h].signerCount = 1
        /\ documents[h].approverCount = 2

\* C38: a SIGNED or APPROVED document has a non-empty required-signer list
\* without duplicates, signerCount equal to its length and every required
\* signer marked as signed; an APPROVED document has at least one approver.
C38_SignedMeansAllSigned ==
    \A h \in Hash :
        /\ documents[h].status \in {"SIGNED", "APPROVED"}
           => /\ documents[h].requiredSigners # <<>>
              /\ DuplicateFree(h)
              /\ documents[h].signerCount = Len(documents[h].requiredSigners)
              /\ \A a \in Listed(h) : hasSigned(h, a).value
        /\ documents[h].status = "APPROVED" => documents[h].approverCount >= 1

C38_Witness ==
    \E h \in Hash :
        /\ documents[h].status = "APPROVED"
        /\ Len(documents[h].requiredSigners) = 2
        /\ documents[h].approverCount = 1

\* C39: when every identity's signDocument is weakly fair, a document with a
\* non-empty required-signer list without duplicates gets SIGNED in the end
\* unless it is rejected (it may be APPROVED by the time it is looked at); and
\* on a SIGNED document approveDocument by an identity that has not approved
\* passes its requires and sets the status to APPROVED.
C39_SignedInTheEnd ==
    /\ \A h \in MainHash :
           (documents[h].exists /\ documents[h].requiredSigners # <<>> /\ DuplicateFree(h))
           ~> (documents[h].status \in {"SIGNED", "APPROVED", "REJECTED"})
    /\ [](\A h \in MainHash, s \in Address :
            (documents[h].status = "SIGNED" /\ ~documents[h].hasApproved[s])
            => approveDocumentRequire(s, h) = "ok")
    /\ [][\A h \in MainHash, s \in Address :
            (documents[h].status = "SIGNED" /\ ~documents[h].hasApproved[s]
                 /\ approveDocument(s, h))
            => documents'[h].status = "APPROVED"]_vars

C39_Witness ==
    \E h \in MainHash :
        /\ Len(documents[h].requiredSigners) = 2 /\ DuplicateFree(h)
        /\ documents[h].status = "APPROVED"
        /\ documents[h].approverCount = 1
        /\ Logged("DocumentRejected", h, Address) = 0

\* C40: within one run of the gateway every transaction it sends has the
\* wallet as msg.sender, so for each hash at most one POST .../approve gets a
\* 200 response, whichever end user posts it, and POST .../sign gets a 200
\* response only when the wallet is in the required-signer list of the hash.
C40_OneWalletBehindTheGateway ==
    /\ [](\A h \in Hash :
            /\ served[<<"approve", h>>] <= 1
            /\ served[<<"sign", h>>] >= 1 => wallet \in Listed(h)
            /\ wallet # NoWallet
               => \A user \in Address :
                      /\ served[<<"approve", h>>] >= 1
                         => approveDocumentRequire(GatewaySender(user), h) = "Already approved"
                      /\ signDocumentRequire(GatewaySender(user), h) = "ok"
                         => wallet \in Listed(h))
    /\ [][\A k \in Route \X Hash :
            served'[k] # served[k]
            => /\ wallet # NoWallet
               /\ \E e \in BagToSet(eventLog') :
                      /\ e.actor = wallet /\ e.documentHash \in Hash
                      /\ eventLog' = eventLog (+) SetToBag({e})]_vars

C40_Witness ==
    \E h, g \in Hash :
        /\ served[<<"approve", h>>] = 1
        /\ Listed(h) # {} /\ wallet \notin Listed(h)
        /\ served[<<"sign", h>>] = 0
        /\ served[<<"sign", g>>] = 1
====
